---------------------------- MODULE Spec2Model ----------------------------
(* A model of src/app.py: the Flask application with the /save_lead         *)
(* handler (validation, pooled PostgreSQL connection, one insert, commit,   *)
(* rollback on error, putconn in finally) and the /chat handler (one call   *)
(* to the Gemini client and the mapping of its failures to HTTP statuses).  *)
(*                                                                          *)
(* /save_lead is modelled step by step, one request per worker thread,      *)
(* so that requests interleave at every database round trip.  /chat shares  *)
(* no mutable state with anything, so one action is the whole handler.      *)
(* psycopg2's pool and connection calls are taken as atomic steps that      *)
(* either succeed or raise.                                                 *)
EXTENDS Integers, Sequences, FiniteSets, Bags, TLC

(***************************************************************************)
(* Bounds of the model.                                                    *)
(***************************************************************************)
\* number of worker threads that may run save_lead() at the same time
NumThreads == 2
\* number of /save_lead requests that get past validation in one behaviour
MaxRequests == 2

(***************************************************************************)
(* Program constants.                                                      *)
(***************************************************************************)
\* pool.SimpleConnectionPool(1, 20, DB_URL)
maxconn == 20

Threads == 1 .. NumThreads
ConnIds == 1 .. maxconn

\* Python's None
None == "None"

(***************************************************************************)
(* Request bodies.  request.get_json() yields either a dict or some other  *)
(* JSON value (null, a list, a number, a string), which has no .get.  A    *)
(* dict is its set of keys and a value for each; a key it does not hold    *)
(* has the value "" here, which nothing reads.                             *)
(***************************************************************************)
LeadBody(keys, nombre, telefono, servicio, mensaje) ==
    [kind |-> "object", keys |-> keys, nombre |-> nombre, telefono |-> telefono,
     servicio |-> servicio, mensaje |-> mensaje]

NonObject == [kind |-> "nonobject", keys |-> {}, nombre |-> "", telefono |-> "",
              servicio |-> "", mensaje |-> ""]

\* a body with all four fields; its service is the empty string
FullBody == LeadBody({"nombre", "telefono", "servicio", "mensaje"},
                     "Ana", "555-1234", "", "Hola")

\* The bodies tried, without the optional fields: a name and a phone; a
\* missing or an empty name beside a phone; a missing or an empty phone
\* beside a name; neither.  Then a body with all four fields, and a body
\* that is no JSON object.
LeadBodies ==
    { LeadBody({"nombre", "telefono"}, "Ana", "555-1234", "", ""),
      LeadBody({"telefono"}, "", "555-1234", "", ""),
      LeadBody({"nombre", "telefono"}, "", "555-1234", "", ""),
      LeadBody({"nombre"}, "Ana", "", "", ""),
      LeadBody({"nombre", "telefono"}, "Ana", "", "", ""),
      LeadBody({}, "", "", "", ""),
      FullBody, NonObject }

NoBody == [kind |-> "none", keys |-> {}, nombre |-> "", telefono |-> "",
           servicio |-> "", mensaje |-> ""]

\* a mutant of Get: the default also replaces an empty value
GetOrDefault(d, key, default) ==
    IF key \notin d.keys \/ d[key] = "" THEN default ELSE d[key]

\* dict.get(key, default)
Get(d, key, default) ==
    IF key \in d.keys THEN d[key] ELSE default

\* Python truthiness of the values a field can take
Falsy(v) == v \in {None, ""}

\* the tuple handed to cur.execute
LeadRow(d) ==
    [nombre   |-> Get(d, "nombre", None),
     telefono |-> Get(d, "telefono", None),
     servicio |-> Get(d, "servicio", "No especificado"),
     mensaje  |-> Get(d, "mensaje", "Contacto desde formulario web")]

\* if not nombre or not telefono
MissingFields(d) ==
    \/ Falsy(Get(d, "nombre", None))
    \/ Falsy(Get(d, "telefono", None))

(***************************************************************************)
(* What a handler invocation ends with: a returned (jsonify(...), status)  *)
(* pair, or an exception that leaves the handler.                          *)
(***************************************************************************)
NoField == "<no field>"

Return(status, error, details, success) ==
    [kind |-> "return", status |-> status, error |-> error,
     details |-> details, success |-> success]

Raise(exc) ==
    [kind |-> "raise", status |-> 0, error |-> NoField,
     details |-> exc, success |-> FALSE]

NoOutcome ==
    [kind |-> "none", status |-> 0, error |-> NoField,
     details |-> NoField, success |-> FALSE]

ErrUnavailable == "El servicio de base de datos no esta disponible."
ErrMissing     == "Faltan campos obligatorios: nombre y telefono."
ErrSaveLead    == "Error interno del servidor al guardar el lead."
MsgSaved       == "Lead guardado con exito."

\* str(e) of the exceptions the database calls raise
GetconnError  == "connection pool exhausted"
ConnectError  == "could not connect to server"
CursorError   == "connection already closed"
ExecuteError  == "insert failed"
CommitError   == "commit failed"
CloseError    == "cursor close failed"
RollbackError == "rollback failed"

VARIABLES
    db_pool,     \* "pool" or None, fixed at import time
    used,        \* the connections checked out of the pool
    tx,          \* per checked-out connection: transaction status and pending rows
    leads,       \* the committed rows of the leads table, a bag: rows have no order
    pc,          \* per thread: where save_lead() stands
    data,        \* per thread: request.get_json()
    conn,        \* per thread: the local conn (0 is None)
    exc,         \* per thread: str(e) of the exception being handled
    outcome,     \* per thread: what the invocation ends with
    started,     \* the number of requests that reached getconn
    \* history of the running request, per thread
    getconns,    \* successful getconn calls
    putconns,    \* putconn calls
    committed,   \* the rows its commit made durable
    rolledback,  \* a rollback completed on its connection
    putstatus,   \* the transaction status of its connection when it was put back
    dbfault      \* a database call of the request raised

leadVars == <<db_pool, used, tx, leads, pc, data, conn, exc, outcome, started,
              getconns, putconns, committed, rolledback, putstatus, dbfault>>

VARIABLES
    chatData,       \* request.get_json() of the last /chat request
    chatOutcome,    \* what that invocation of chat() ended with
    upstreamCalls,  \* the generate_content calls it made
    upstreamArgs,   \* the contents and system_instruction it sent
    upstream        \* what generate_content answered or raised

chatVars == <<chatData, chatOutcome, upstreamCalls, upstreamArgs, upstream>>

vars == <<leadVars, chatVars>>

(***************************************************************************)
(* Start-up: the module-level code that builds db_pool.                    *)
(***************************************************************************)
\* if DB_URL: try SimpleConnectionPool(...) except: db_pool = None; else: None
InitPool(dbUrlSet, connectOk) ==
    IF dbUrlSet /\ connectOk THEN "pool" ELSE None

\* if not db_pool
PoolMissing == db_pool = None

InitLead ==
    /\ \E dbUrlSet \in BOOLEAN, connectOk \in BOOLEAN :
           db_pool = InitPool(dbUrlSet, connectOk)
    /\ used = {}
    /\ tx = << >>
    /\ leads = EmptyBag
    /\ pc = [t \in Threads |-> "idle"]
    /\ data = [t \in Threads |-> NoBody]
    /\ conn = [t \in Threads |-> 0]
    /\ exc = [t \in Threads |-> NoField]
    /\ outcome = [t \in Threads |-> NoOutcome]
    /\ started = 0
    /\ getconns = [t \in Threads |-> 0]
    /\ putconns = [t \in Threads |-> 0]
    /\ committed = [t \in Threads |-> << >>]
    /\ rolledback = [t \in Threads |-> FALSE]
    /\ putstatus = [t \in Threads |-> NoField]
    /\ dbfault = [t \in Threads |-> FALSE]

(***************************************************************************)
(* save_lead(), lines 57-102.                                              *)
(***************************************************************************)
\* a mutant of Precheck: the body is validated before the pool is looked at
PrecheckValidateFirst(poolMissing, body) ==
    IF body.kind # "object" THEN Raise("AttributeError")
    ELSE IF MissingFields(body) THEN Return(400, ErrMissing, NoField, FALSE)
    ELSE IF poolMissing THEN Return(503, ErrUnavailable, NoField, FALSE)
    ELSE NoOutcome

\* Lines 59-72: what the handler ends with before it touches the pool, or
\* NoOutcome when it goes on to the try block.  data.get on a value that is
\* no dict raises AttributeError outside any try.
Precheck(poolMissing, body) ==
    IF poolMissing THEN Return(503, ErrUnavailable, NoField, FALSE)
    ELSE IF body.kind # "object" THEN Raise("AttributeError")
    ELSE IF MissingFields(body) THEN Return(400, ErrMissing, NoField, FALSE)
    ELSE NoOutcome

RECURSIVE SeqToBag(_)
\* the rows of a transaction as a bag
SeqToBag(rows) ==
    IF rows = << >> THEN EmptyBag
    ELSE SetToBag({Head(rows)}) (+) SeqToBag(Tail(rows))

CleanTx == [status |-> "idle", rows |-> << >>]

Min(S) == CHOOSE x \in S : \A y \in S : x <= y

\* a mutant of Acquire: the pool hands out its first connection again
AcquireFirst(inUse) == Min(ConnIds)

\* the connection getconn() hands out: one that is not checked out
Acquire(inUse) == Min(ConnIds \ inUse)

\* the pool has a connection to give (fewer than maxconn are checked out)
Available(inUse) == Cardinality(inUse) < maxconn

SaveLeadBegin(t, body) ==
    /\ pc[t] = "idle"
    /\ LET pre == Precheck(PoolMissing, body) IN
       IF pre # NoOutcome
       THEN /\ pc' = [pc EXCEPT ![t] = "done"]
            /\ outcome' = [outcome EXCEPT ![t] = pre]
            /\ UNCHANGED started
       ELSE /\ started < MaxRequests
            /\ pc' = [pc EXCEPT ![t] = "getconn"]
            /\ started' = started + 1
            /\ UNCHANGED outcome
    /\ data' = [data EXCEPT ![t] = body]
    /\ UNCHANGED <<chatVars, db_pool, used, tx, leads, conn, exc, getconns, putconns,
                   committed, rolledback, putstatus, dbfault>>

\* an exception raised inside the try block: control goes to the except clause
Caught(t, msg) ==
    /\ pc' = [pc EXCEPT ![t] = "except"]
    /\ exc' = [exc EXCEPT ![t] = msg]
    /\ dbfault' = [dbfault EXCEPT ![t] = TRUE]

\* conn = db_pool.getconn() succeeds
Checkout(t) ==
    /\ Available(used)
    /\ LET c == Acquire(used) IN
         /\ conn' = [conn EXCEPT ![t] = c]
         /\ used' = used \cup {c}
         /\ tx' = [x \in used \cup {c} |-> IF x = c THEN CleanTx ELSE tx[x]]
    /\ getconns' = [getconns EXCEPT ![t] = @ + 1]

\* lines 77-78, both succeed
GetConn(t) ==
    /\ pc[t] = "getconn"
    /\ Checkout(t)
    /\ pc' = [pc EXCEPT ![t] = "execute"]
    /\ UNCHANGED <<chatVars, db_pool, leads, data, exc, outcome, started, putconns,
                   committed, rolledback, putstatus, dbfault>>

\* line 77 raises: the pool is exhausted, or a new connection cannot be made
GetConnFail(t) ==
    /\ pc[t] = "getconn"
    /\ Caught(t, IF Available(used) THEN ConnectError ELSE GetconnError)
    /\ UNCHANGED <<chatVars, db_pool, used, tx, leads, data, conn, outcome, started,
                   getconns, putconns, committed, rolledback, putstatus>>

\* line 77 succeeds, line 78 conn.cursor() raises
CursorFail(t) ==
    /\ pc[t] = "getconn"
    /\ Checkout(t)
    /\ Caught(t, CursorError)
    /\ UNCHANGED <<chatVars, db_pool, leads, data, outcome, started, putconns,
                   committed, rolledback, putstatus>>

\* line 86 succeeds: the row is pending in the connection's transaction
Execute(t) ==
    /\ pc[t] = "execute"
    /\ tx' = [tx EXCEPT ![conn[t]] =
                 [status |-> "intrans", rows |-> Append(@.rows, LeadRow(data[t]))]]
    /\ pc' = [pc EXCEPT ![t] = "commit"]
    /\ UNCHANGED <<chatVars, db_pool, used, leads, data, conn, exc, outcome, started,
                   getconns, putconns, committed, rolledback, putstatus, dbfault>>

\* line 86 raises: the transaction is aborted
ExecuteFail(t) ==
    /\ pc[t] = "execute"
    /\ tx' = [tx EXCEPT ![conn[t]].status = "inerror"]
    /\ Caught(t, ExecuteError)
    /\ UNCHANGED <<chatVars, db_pool, used, leads, data, conn, outcome, started,
                   getconns, putconns, committed, rolledback, putstatus>>

\* conn.commit() succeeds: the pending rows of the connection become durable
Durable(t) ==
    /\ leads' = leads (+) SeqToBag(tx[conn[t]].rows)
    /\ committed' = [committed EXCEPT ![t] = @ \o tx[conn[t]].rows]
    /\ tx' = [tx EXCEPT ![conn[t]] = CleanTx]

\* lines 87-90 succeed; the return value waits for the finally clause
Commit(t) ==
    /\ pc[t] = "commit"
    /\ Durable(t)
    /\ outcome' = [outcome EXCEPT ![t] = Return(200, NoField, MsgSaved, TRUE)]
    /\ pc' = [pc EXCEPT ![t] = "finally"]
    /\ UNCHANGED <<chatVars, db_pool, used, data, conn, exc, started, getconns, putconns,
                   rolledback, putstatus, dbfault>>

\* line 87 raises
CommitFail(t) ==
    /\ pc[t] = "commit"
    /\ tx' = [tx EXCEPT ![conn[t]].status = "inerror"]
    /\ Caught(t, CommitError)
    /\ UNCHANGED <<chatVars, db_pool, used, leads, data, conn, outcome, started,
                   getconns, putconns, committed, rolledback, putstatus>>

\* line 87 succeeds, then line 89 cur.close() raises
CloseFail(t) ==
    /\ pc[t] = "commit"
    /\ Durable(t)
    /\ Caught(t, CloseError)
    /\ UNCHANGED <<chatVars, db_pool, used, data, conn, outcome, started, getconns,
                   putconns, rolledback, putstatus>>

\* the except clause is left for the finally clause; e is unbound after it
LeaveExcept(t) ==
    /\ pc' = [pc EXCEPT ![t] = "finally"]
    /\ exc' = [exc EXCEPT ![t] = NoField]

\* lines 92-97 with conn set and conn.rollback() succeeding
Rollback(t) ==
    /\ pc[t] = "except"
    /\ conn[t] # 0
    /\ tx' = [tx EXCEPT ![conn[t]] = CleanTx]
    /\ rolledback' = [rolledback EXCEPT ![t] = TRUE]
    /\ outcome' = [outcome EXCEPT ![t] = Return(500, ErrSaveLead, exc[t], FALSE)]
    /\ LeaveExcept(t)
    /\ UNCHANGED <<chatVars, db_pool, used, leads, data, conn, started, getconns,
                   putconns, committed, putstatus, dbfault>>

\* lines 92-96 with conn.rollback() raising: the new exception leaves the
\* except clause, the finally clause still runs
RollbackFail(t) ==
    /\ pc[t] = "except"
    /\ conn[t] # 0
    /\ outcome' = [outcome EXCEPT ![t] = Raise(RollbackError)]
    /\ LeaveExcept(t)
    /\ UNCHANGED <<chatVars, db_pool, used, tx, leads, data, conn, started, getconns,
                   putconns, committed, rolledback, putstatus, dbfault>>

\* lines 92-97 with conn still None (getconn raised)
ExceptNoConn(t) ==
    /\ pc[t] = "except"
    /\ conn[t] = 0
    /\ outcome' = [outcome EXCEPT ![t] = Return(500, ErrSaveLead, exc[t], FALSE)]
    /\ LeaveExcept(t)
    /\ UNCHANGED <<chatVars, db_pool, used, tx, leads, data, conn, started, getconns,
                   putconns, committed, rolledback, putstatus, dbfault>>

\* a mutant of Finally: putconn only where the handler returns normally
FinallyOnReturnOnly(t) ==
    /\ pc[t] = "finally"
    /\ IF conn[t] # 0 /\ outcome[t].kind = "return"
       THEN /\ used' = used \ {conn[t]}
            /\ tx' = [x \in used \ {conn[t]} |-> tx[x]]
            /\ putconns' = [putconns EXCEPT ![t] = @ + 1]
            /\ putstatus' = [putstatus EXCEPT ![t] = tx[conn[t]].status]
       ELSE UNCHANGED <<used, tx, putconns, putstatus>>
    /\ pc' = [pc EXCEPT ![t] = "done"]
    /\ UNCHANGED <<chatVars, db_pool, leads, data, conn, exc, outcome, started, getconns,
                   committed, rolledback, dbfault>>

\* lines 99-102: if conn: db_pool.putconn(conn); then the outcome leaves
Finally(t) ==
    /\ pc[t] = "finally"
    /\ IF conn[t] # 0
       THEN /\ used' = used \ {conn[t]}
            /\ tx' = [x \in used \ {conn[t]} |-> tx[x]]
            /\ putconns' = [putconns EXCEPT ![t] = @ + 1]
            /\ putstatus' = [putstatus EXCEPT ![t] = tx[conn[t]].status]
       ELSE UNCHANGED <<used, tx, putconns, putstatus>>
    /\ pc' = [pc EXCEPT ![t] = "done"]
    /\ UNCHANGED <<chatVars, db_pool, leads, data, conn, exc, outcome, started, getconns,
                   committed, rolledback, dbfault>>

\* the response has been sent; the thread takes the next request
Respond(t) ==
    /\ pc[t] = "done"
    /\ pc' = [pc EXCEPT ![t] = "idle"]
    /\ data' = [data EXCEPT ![t] = NoBody]
    /\ conn' = [conn EXCEPT ![t] = 0]
    /\ outcome' = [outcome EXCEPT ![t] = NoOutcome]
    /\ getconns' = [getconns EXCEPT ![t] = 0]
    /\ putconns' = [putconns EXCEPT ![t] = 0]
    /\ committed' = [committed EXCEPT ![t] = << >>]
    /\ rolledback' = [rolledback EXCEPT ![t] = FALSE]
    /\ putstatus' = [putstatus EXCEPT ![t] = NoField]
    /\ dbfault' = [dbfault EXCEPT ![t] = FALSE]
    /\ UNCHANGED <<chatVars, db_pool, used, tx, leads, exc, started>>

(***************************************************************************)
(* chat(), lines 107-144.  Texts are sequences of words, so that the test  *)
(* 'RATE_LIMIT_EXCEEDED' in str(e) is a search and not a lookup.           *)
(***************************************************************************)
ChatBody(keys, contents, systemInstruction) ==
    [kind |-> "object", keys |-> keys, contents |-> contents,
     systemInstruction |-> systemInstruction]

ChatNonObject == [kind |-> "nonobject", keys |-> {}, contents |-> << >>,
                  systemInstruction |-> ""]

NoChatBody == [kind |-> "none", keys |-> {}, contents |-> << >>,
               systemInstruction |-> ""]

Histories == { << >>, <<"hola">>, <<"hola", "precio">> }

\* The bodies tried: contents missing, empty, of one turn and of two, each
\* with and without a system instruction; and a body that is no JSON object.
ChatBodies ==
    { ChatBody({"contents"} \cup sk, h, si) :
        h \in Histories,
        sk \in {{}, {"systemInstruction"}}, si \in {"Eres un asistente"} }
    \cup { ChatBody(sk, << >>, "Eres un asistente") :
             sk \in {{}, {"systemInstruction"}} }
    \cup {ChatNonObject}

RateLimitMarker == <<"RATE", "LIMIT", "EXCEEDED">>

\* str(e) of the APIErrors tried, by what the upstream signalled
RateLimitTexts ==
    { <<"RATE", "LIMIT", "EXCEEDED">>,
      <<"429", "RESOURCE", "EXHAUSTED", "RATE", "LIMIT", "EXCEEDED">>,
      <<"429", "RATE", "LIMIT", "EXCEEDED", "retry", "later">> }

OtherApiTexts ==
    { <<"500", "INTERNAL">>,
      <<"400", "INVALID", "ARGUMENT">>,
      <<"RATE", "LIMIT">>,
      <<"LIMIT", "EXCEEDED", "RATE">>,
      <<"403", "RATE", "EXCEEDED", "LIMIT">> }

OtherErrorTexts == { <<"timed", "out">>, <<"connection", "reset">> }

Candidates ==
    { << >>,
      << [content |-> "respuesta", finish_reason |-> "STOP"] >>,
      << [content |-> "respuesta", finish_reason |-> "MAX_TOKENS"],
         [content |-> "otra", finish_reason |-> "STOP"] >> }

\* what client.models.generate_content does: answer, raise APIError, raise
\* something else
UpstreamResults ==
    [kind : {"response"}, candidates : Candidates, text : {<< >>}]
    \cup [kind : {"api_error"}, candidates : {<< >>},
          text : RateLimitTexts \cup OtherApiTexts]
    \cup [kind : {"error"}, candidates : {<< >>}, text : OtherErrorTexts]

NoUpstream == [kind |-> "none", candidates |-> << >>, text |-> << >>]

NoArgs == [contents |-> << >>, system_instruction |-> None]

ChatReturn(status, error, details, candidates) ==
    [kind |-> "return", status |-> status, error |-> error,
     details |-> details, candidates |-> candidates]

ChatRaise(e) ==
    [kind |-> "raise", status |-> 0, error |-> NoField,
     details |-> e, candidates |-> << >>]

NoChatOutcome ==
    [kind |-> "none", status |-> 0, error |-> NoField,
     details |-> NoField, candidates |-> << >>]

ErrNoContents == "Faltan contenidos del chat."
ErrGemini     == "Error de la API de Gemini."
ErrInternal   == "Error interno del servidor."
IndexErrorText == <<"list", "index", "out", "of", "range">>

\* hay.startswith(needle)
StartsWith(needle, hay) ==
    /\ Len(needle) <= Len(hay)
    /\ SubSeq(hay, 1, Len(needle)) = needle

\* needle in hay
Contains(needle, hay) ==
    \E i \in 0 .. (Len(hay) - Len(needle)) :
        SubSeq(hay, i + 1, i + Len(needle)) = needle

\* a mutant of ApiErrorStatus: the marker is sought at the start of the text
ApiErrorStatusPrefix(text) ==
    IF StartsWith(RateLimitMarker, text) THEN 429 ELSE 500

\* line 138
ApiErrorStatus(text) ==
    IF Contains(RateLimitMarker, text) THEN 429 ELSE 500

\* not contents
NoContents(contents) == Len(contents) = 0

\* lines 116-144: the outcome of the try block for what the upstream did
AfterCall(up) ==
    CASE up.kind = "response" /\ up.candidates # << >> ->
             ChatReturn(200, NoField, NoField, << Head(up.candidates) >>)
      [] up.kind = "response" /\ up.candidates = << >> ->
             ChatReturn(500, ErrInternal, IndexErrorText, << >>)
      [] up.kind = "api_error" ->
             ChatReturn(ApiErrorStatus(up.text), ErrGemini, up.text, << >>)
      [] OTHER ->
             ChatReturn(500, ErrInternal, up.text, << >>)

InitChat ==
    /\ chatData = NoChatBody
    /\ chatOutcome = NoChatOutcome
    /\ upstreamCalls = 0
    /\ upstreamArgs = NoArgs
    /\ upstream = NoUpstream

\* One /chat request.  data.get on a value that is no dict raises
\* AttributeError outside the try block.
Chat(body, up) ==
    /\ chatData' = body
    /\ IF body.kind # "object"
       THEN /\ chatOutcome' = ChatRaise("AttributeError")
            /\ upstreamCalls' = 0
            /\ upstreamArgs' = NoArgs
            /\ upstream' = NoUpstream
       ELSE IF NoContents(Get(body, "contents", << >>))
       THEN /\ chatOutcome' = ChatReturn(400, ErrNoContents, NoField, << >>)
            /\ upstreamCalls' = 0
            /\ upstreamArgs' = NoArgs
            /\ upstream' = NoUpstream
       ELSE /\ upstreamCalls' = 1
            /\ upstreamArgs' =
                   [contents |-> Get(body, "contents", << >>),
                    system_instruction |-> Get(body, "systemInstruction", None)]
            /\ upstream' = up
            /\ chatOutcome' = AfterCall(up)
    /\ UNCHANGED leadVars

Init == InitLead /\ InitChat

NextLead ==
    \E t \in Threads :
        \/ \E body \in LeadBodies : SaveLeadBegin(t, body)
        \/ GetConn(t)
        \/ GetConnFail(t)
        \/ CursorFail(t)
        \/ Execute(t)
        \/ ExecuteFail(t)
        \/ Commit(t)
        \/ CommitFail(t)
        \/ CloseFail(t)
        \/ Rollback(t)
        \/ RollbackFail(t)
        \/ ExceptNoConn(t)
        \/ Finally(t)
        \/ Respond(t)

NextChat == \E body \in ChatBodies, up \in UpstreamResults : Chat(body, up)

Next == NextLead \/ NextChat

\* The /save_lead handler alone, the /chat handler alone, and both.  The two
\* handlers share no state (chat() never reads db_pool), so a property of one
\* handler is checked under that handler's own specification.
SpecLead == Init /\ [][NextLead]_vars
SpecChat == Init /\ [][NextChat]_vars
Spec == Init /\ [][Next]_vars

(***************************************************************************)
(* The properties.  What a request asked for is read off its body here,    *)
(* not through the handler's own helpers.                                  *)
(***************************************************************************)
Finished(t) == pc[t] = "done"

\* the body names the field and gives it a non-empty value
Given(d, key) == d.kind = "object" /\ key \in d.keys /\ d[key] # ""

ValidLead(d) == Given(d, "nombre") /\ Given(d, "telefono")

\* the row a valid body asks for
ExpectedRow(d) ==
    [nombre   |-> d.nombre,
     telefono |-> d.telefono,
     servicio |-> IF "servicio" \in d.keys THEN d.servicio ELSE "No especificado",
     mensaje  |-> IF "mensaje" \in d.keys THEN d.mensaje
                  ELSE "Contacto desde formulario web"]

Saved == Return(200, NoField, MsgSaved, TRUE)

DbErrorTexts == {GetconnError, ConnectError, CursorError, ExecuteError,
                 CommitError, CloseError}

\* the threads that hold a connection they have not put back
Holders == { t \in Threads : conn[t] # 0 /\ pc[t] \notin {"idle", "done"} }

\* C1: with a pool configured, a finished /save_lead request whose name or
\* phone is missing or empty has acquired no connection, has written no row
\* and was answered 400.  (Without a pool the answer is 503; that case is
\* left out here, so that what refutes the statement is the handler itself.)
C1_MissingFieldsRejected ==
    \A t \in Threads :
        (Finished(t) /\ ~ValidLead(data[t])) =>
            /\ getconns[t] = 0
            /\ committed[t] = << >>
            /\ (db_pool # None =>
                    outcome[t] = Return(400, ErrMissing, NoField, FALSE))

\* C2: every successful getconn of a request is followed by exactly one
\* putconn before the request completes, on every exit path, so that with no
\* request in flight no connection is checked out.
C2_ConnectionAlwaysReturned ==
    /\ \A t \in Threads :
          /\ getconns[t] <= 1
          /\ putconns[t] <= getconns[t]
          /\ Finished(t) => putconns[t] = getconns[t]
          /\ (conn[t] # 0) = (getconns[t] = 1)
    /\ used = { conn[t] : t \in Holders }
    /\ (\A t \in Threads : pc[t] \in {"idle", "done"}) => used = {}

\* C2 witness: a request whose insert and rollback both failed has finished
\* with its connection put back.
C2_Witness ==
    \E t \in Threads :
        /\ Finished(t)
        /\ outcome[t] = Raise(RollbackError)
        /\ getconns[t] = 1
        /\ putconns[t] = 1
        /\ conn[t] \notin used

\* C3 as stated: every finished /save_lead request with a non-empty name and
\* phone was answered 200 with success:true and left its row in leads.
C3_EveryValidLeadStored ==
    \A t \in Threads :
        (Finished(t) /\ ValidLead(data[t])) =>
            /\ outcome[t] = Saved
            /\ committed[t] = << ExpectedRow(data[t]) >>
            /\ BagIn(ExpectedRow(data[t]), leads)

\* C3 as amended: with a pool configured, a finished /save_lead request with
\* a non-empty name and phone none of whose database calls raised was
\* answered 200 with success:true, and its commit made durable exactly one
\* row, holding the submitted values and the two defaults for absent fields.
C3_ValidLeadStored ==
    \A t \in Threads :
        (Finished(t) /\ ValidLead(data[t]) /\ db_pool # None /\ ~dbfault[t]) =>
            /\ outcome[t] = Saved
            /\ committed[t] = << ExpectedRow(data[t]) >>
            /\ BagIn(ExpectedRow(data[t]), leads)

\* C3 witness: the body with only name and phone was stored with both
\* defaults, and the body with an empty service was stored as sent.
C3_Witness ==
    \E t, u \in Threads :
        /\ Finished(t) /\ Finished(u)
        /\ outcome[t] = Saved /\ outcome[u] = Saved
        /\ data[t].keys = {"nombre", "telefono"}
        /\ data[u] = FullBody
        /\ BagIn([nombre |-> "Ana", telefono |-> "555-1234",
                  servicio |-> "No especificado",
                  mensaje |-> "Contacto desde formulario web"], leads)
        /\ BagIn([nombre |-> "Ana", telefono |-> "555-1234",
                  servicio |-> "", mensaje |-> "Hola"], leads)

\* C4: a /chat request makes no upstream call and is answered 400 when its
\* contents is empty or absent, and makes exactly one upstream call when its
\* contents is non-empty, whether or not that call fails.
C4_UpstreamCallsByContents ==
    chatData.kind # "none" =>
        IF Given(chatData, "contents") /\ chatData.contents # << >>
        THEN upstreamCalls = 1
        ELSE /\ upstreamCalls = 0
             /\ chatOutcome = ChatReturn(400, ErrNoContents, NoField, << >>)

\* C5: an upstream API error is answered 429 when it is a rate-limit error
\* and 500 otherwise, both with the error kind and the error text unchanged.
C5_ApiErrorMapping ==
    upstream.kind = "api_error" =>
        chatOutcome =
            ChatReturn(IF upstream.text \in RateLimitTexts THEN 429 ELSE 500,
                       ErrGemini, upstream.text, << >>)

\* C5 witness: a rate-limit error whose text does not begin with the marker
\* was answered 429 with that text.
C5_Witness ==
    /\ upstream.kind = "api_error"
    /\ upstream.text \in RateLimitTexts
    /\ Head(upstream.text) = "429"
    /\ chatOutcome.status = 429
    /\ chatOutcome.details = upstream.text

\* C6: with no pool configured every /save_lead request, whatever its body,
\* is answered 503 straight away and nothing touches the database; and the
\* pool is never configured later.
C6_NoPoolAlways503 ==
    /\ [](db_pool = None =>
            /\ \A t \in Threads :
                  /\ pc[t] \in {"idle", "done"}
                  /\ getconns[t] = 0
                  /\ committed[t] = << >>
                  /\ Finished(t) =>
                        outcome[t] = Return(503, ErrUnavailable, NoField, FALSE)
            /\ used = {}
            /\ leads = EmptyBag)
    /\ [][db_pool' = db_pool]_vars

\* C6 witness: with no pool, a complete valid body and a body that is no
\* JSON object were both answered 503.
C6_Witness ==
    \E t, u \in Threads :
        /\ db_pool = None
        /\ Finished(t) /\ data[t] = FullBody /\ outcome[t].status = 503
        /\ Finished(u) /\ data[u] = NonObject /\ outcome[u].status = 503

\* C7: no /save_lead or /chat request ends with an exception leaving the
\* handler; every one ends with a returned JSON envelope.
C7_NoExceptionEscapes ==
    /\ \A t \in Threads : Finished(t) => outcome[t].kind = "return"
    /\ chatData.kind # "none" => chatOutcome.kind = "return"

C9_RollbackBeforeRelease ==
    \A t \in Threads :
        /\ putconns[t] = 1 => putstatus[t] = "idle"
        /\ (Finished(t) /\ dbfault[t] /\ getconns[t] = 1) =>
              /\ rolledback[t]
              /\ outcome[t].kind = "return"
              /\ outcome[t].status = 500
              /\ outcome[t].error = ErrSaveLead
              /\ outcome[t].details \in DbErrorTexts

\* C10: a finished /save_lead request has made a row durable if and only if
\* it was answered 200.
C10_RowIffOk ==
    \A t \in Threads :
        Finished(t) => ((committed[t] # << >>) <=> (outcome[t] = Saved))
=============================================================================
